---- MODULE Spec2Model ----
(***************************************************************************)
(* A model of the range-tracked dependency/tool domain model               *)
(* (src/parser/query_structs.rs, src/parser/query_utils.rs) and of the     *)
(* Rokit protocol handler (src/tools/rokit/mod.rs).                        *)
(*                                                                         *)
(* Text is modelled as a sequence of one-character strings, a Position as  *)
(* a record [line, character], a Range as [start, end], a Node<T> as       *)
(* [contents, range], an Option<T> as None / Some(x).                      *)
(***************************************************************************)
EXTENDS Integers, Sequences, FiniteSets, TLC

VARIABLES
    req,        \* the request (or the pure function's input) being served
    pc,         \* "idle" | "awaiting" | "done" | "cancelled"
    result,     \* what the operation returned
    extracted,  \* whether query_rokit_toml_dependencies ran for this request
    called,     \* the content collaborators called by this request, in order
    checks,     \* the per-entity diagnostic futures held by try_join_all
    completed   \* history: the indices of the checks in the order they finished

vars == <<req, pc, result, extracted, called, checks, completed>>

(***************************************************************************)
(* Bounds of the model.                                                    *)
(***************************************************************************)
\* cursor positions 0..MaxOffset of a small document, LineWidth per line
MaxOffset == 2
LineWidth == 2
\* longest list given to sort_vec / to find_at_pos
MaxSortLen == 3
MaxFindLen == 2
\* longest text between the quotes of a tool spec
MaxSpecLen == 5
\* most entities extracted from one document, most diagnostics of one check,
\* most diagnostics in one codeAction request
MaxDeps == 2
MaxDiags == 1
MaxContext == 2

(***************************************************************************)
(* Option                                                                  *)
(***************************************************************************)
None == [some |-> FALSE]
Some(x) == [some |-> TRUE, val |-> x]

(***************************************************************************)
(* Positions and ranges (query_utils.rs)                                   *)
(***************************************************************************)
Pos(l, c) == [line |-> l, character |-> c]
Rng(s, e) == [start |-> s, end |-> e]

\* derive(PartialOrd, Ord) on lsp_types::Position: line first, then character
PosCmp(a, b) ==
    IF a.line < b.line THEN "Less"
    ELSE IF a.line > b.line THEN "Greater"
    ELSE IF a.character < b.character THEN "Less"
    ELSE IF a.character > b.character THEN "Greater"
    ELSE "Equal"

PosLe(a, b) == PosCmp(a, b) # "Greater"

\* a bug: the end of the range is exclusive
range_contains_exclusive(range, pos) ==
    PosLe(range.start, pos) /\ PosCmp(pos, range.end) = "Less"

range_contains(range, pos) ==
    PosLe(range.start, pos) /\ PosLe(pos, range.end)

range_extend(range, other) ==
    Rng(IF PosLe(range.start, other.start) THEN range.start ELSE other.start,
        IF PosLe(other.end, range.end) THEN range.end ELSE other.end)

(***************************************************************************)
(* Node<T> (query_structs.rs)                                              *)
(***************************************************************************)
new_raw(range, contents) == [contents |-> contents, range |-> range]

contains(node, pos) == range_contains(node.range, pos)

Quote == "\""

quoted(node) == node.contents

\* strip_prefix('"') then strip_suffix('"'); the text unchanged unless both strip
unquoted(node) ==
    LET s == quoted(node) IN
    IF Len(s) >= 1 /\ Head(s) = Quote
    THEN LET t == Tail(s) IN
         IF Len(t) >= 1 /\ t[Len(t)] = Quote
         THEN SubSeq(t, 1, Len(t) - 1)
         ELSE s
    ELSE s

(***************************************************************************)
(* Dependency (query_structs.rs)                                           *)
(***************************************************************************)
DependencySpecDefault == [source |-> "Registry", version |-> None, features |-> None]

new_partial(kind, name) == [variant |-> "Partial", kind |-> kind, name |-> name]

new_full(kind, name, spec) ==
    [variant |-> "Full", kind |-> kind, name |-> name, spec |-> spec]

DepName(dep) == dep.name

DepSpec(dep) == IF dep.variant = "Full" THEN Some(dep.spec) ELSE None

\* Ordering::then_with
ThenWith(first, second) == IF first = "Equal" THEN second ELSE first

\* a bug: two entries without a spec compare Greater, which reverses them
DepCmpPartialGreater(a, b) ==
    LET sa == DepSpec(a)
        sb == DepSpec(b)
    IN  IF sa.some /\ sb.some
        THEN ThenWith(PosCmp(sa.val.range.start, sb.val.range.start),
                      PosCmp(sa.val.range.end, sb.val.range.end))
        ELSE IF sa.some THEN "Less"
        ELSE "Greater"

\* the comparator closure of Dependency::sort_vec
DepCmp(a, b) ==
    LET sa == DepSpec(a)
        sb == DepSpec(b)
    IN  IF sa.some /\ sb.some
        THEN ThenWith(PosCmp(sa.val.range.start, sb.val.range.start),
                      PosCmp(sa.val.range.end, sb.val.range.end))
        ELSE IF sa.some THEN "Less"
        ELSE IF sb.some THEN "Greater"
        ELSE "Equal"

\* slice::sort_by is a stable sort: an element moves left only past the
\* elements that compare Greater than it
RECURSIVE InsertStable(_, _)
InsertStable(s, x) ==
    IF s = <<>> THEN <<x>>
    ELSE IF DepCmp(s[Len(s)], x) = "Greater"
         THEN Append(InsertStable(SubSeq(s, 1, Len(s) - 1), x), s[Len(s)])
         ELSE Append(s, x)

RECURSIVE SortFrom(_, _)
SortFrom(done, rest) ==
    IF rest = <<>> THEN done
    ELSE SortFrom(InsertStable(done, Head(rest)), Tail(rest))

sort_vec(vec) == SortFrom(<<>>, vec)

DepMatches(dep, pos) ==
    \/ contains(DepName(dep), pos)
    \/ LET s == DepSpec(dep) IN s.some /\ contains(s.val, pos)

\* vec.iter().find(..)
RECURSIVE find_at_pos(_, _)
find_at_pos(vec, pos) ==
    IF vec = <<>> THEN None
    ELSE IF DepMatches(Head(vec), pos) THEN Some(Head(vec))
    ELSE find_at_pos(Tail(vec), pos)

(***************************************************************************)
(* Tool (query_structs.rs)                                                 *)
(***************************************************************************)
NewTool(name, spec) == [name |-> name, spec |-> spec]

ToolMatches(tool, pos) == contains(tool.name, pos) \/ contains(tool.spec, pos)

RECURSIVE tool_find_at_pos(_, _)
tool_find_at_pos(vec, pos) ==
    IF vec = <<>> THEN None
    ELSE IF ToolMatches(Head(vec), pos) THEN Some(Head(vec))
    ELSE tool_find_at_pos(Tail(vec), pos)

\* str::split_once: the text before and after the first occurrence of ch
FirstIndex(s, ch) ==
    IF \E i \in 1..Len(s) : s[i] = ch
    THEN CHOOSE i \in 1..Len(s) : s[i] = ch /\ \A j \in 1..(i - 1) : s[j] # ch
    ELSE 0

split_once(s, ch) ==
    LET i == FirstIndex(s, ch) IN
    IF i = 0 THEN None
    ELSE Some([before |-> SubSeq(s, 1, i - 1), after |-> SubSeq(s, i + 1, Len(s))])

\* whether substring occurs in text at the (zero-based) offset off
OccursAt(text, substring, off) ==
    /\ off + Len(substring) <= Len(text)
    /\ \A k \in 1..Len(substring) : text[off + k] = substring[k]

\* The range of `substring` inside `text`, which starts at range.start: its
\* first occurrence at or after the offset already consumed.
range_for_substring(range, text, substring, consumed) ==
    LET off == CHOOSE o \in consumed..Len(text) :
                   /\ OccursAt(text, substring, o)
                   /\ \A p \in consumed..(o - 1) : ~OccursAt(text, substring, p)
        start == Pos(range.start.line, range.start.character + off)
    IN  Rng(start, Pos(start.line, start.character + Len(substring)))

\* the offset consumed once the component at `sub` has been placed
ConsumedBy(range, sub) == sub.end.character - range.start.character

\* the (owner, repository, version) texts of Tool::parsed_spec
SplitSpec(raw) ==
    LET first == split_once(raw, "/") IN
    IF first.some
    THEN LET second == split_once(first.val.after, "@") IN
         IF second.some
         THEN [owner |-> first.val.before,
               repository |-> Some(second.val.before),
               version |-> Some(second.val.after)]
         ELSE [owner |-> first.val.before,
               repository |-> Some(first.val.after),
               version |-> None]
    ELSE [owner |-> raw, repository |-> None, version |-> None]

\* a bug: every component is searched from the start of the text, so a
\* repeated component lands on the first occurrence of its text
parsed_spec_first_match(tool) ==
    LET parts == SplitSpec(unquoted(tool.spec))
        text == quoted(tool.spec)
        at(sub) == range_for_substring(tool.spec.range, text, sub, 0)
    IN  [owner |-> new_raw(at(parts.owner), parts.owner),
         repository |-> IF parts.repository.some
                        THEN Some(new_raw(at(parts.repository.val), parts.repository.val))
                        ELSE None,
         version |-> IF parts.version.some
                     THEN Some(new_raw(at(parts.version.val), parts.version.val))
                     ELSE None]

parsed_spec(tool) ==
    LET parts == SplitSpec(unquoted(tool.spec))
        text == quoted(tool.spec)
        range == tool.spec.range
        owner == range_for_substring(range, text, parts.owner, 0)
        afterOwner == ConsumedBy(range, owner)
        repository == IF parts.repository.some
                      THEN range_for_substring(range, text, parts.repository.val, afterOwner)
                      ELSE owner
        afterRepository == ConsumedBy(range, repository)
        version == IF parts.version.some
                   THEN range_for_substring(range, text, parts.version.val, afterRepository)
                   ELSE repository
    IN  [owner |-> new_raw(owner, parts.owner),
         repository |-> IF parts.repository.some
                        THEN Some(new_raw(repository, parts.repository.val))
                        ELSE None,
         version |-> IF parts.version.some
                     THEN Some(new_raw(version, parts.version.val))
                     ELSE None]

\* ToolSpecParsed::into_full
into_full(parsed) ==
    IF parsed.repository.some /\ parsed.version.some
    THEN Some([owner |-> parsed.owner,
               repository |-> parsed.repository.val,
               version |-> parsed.version.val])
    ELSE None

(***************************************************************************)
(* Rokit handler (tools/rokit/mod.rs)                                      *)
(***************************************************************************)
Ok(v) == [ok |-> TRUE, value |-> v]
Err(e) == [ok |-> FALSE, error |-> e]

UpperCase == <<"A", "B", "C", "D", "E", "F", "G", "H", "I", "J", "K", "L", "M",
               "N", "O", "P", "Q", "R", "S", "T", "U", "V", "W", "X", "Y", "Z">>
LowerCase == <<"a", "b", "c", "d", "e", "f", "g", "h", "i", "j", "k", "l", "m",
               "n", "o", "p", "q", "r", "s", "t", "u", "v", "w", "x", "y", "z">>

to_ascii_lowercase(c) ==
    IF \E i \in 1..Len(UpperCase) : UpperCase[i] = c
    THEN LowerCase[CHOOSE i \in 1..Len(UpperCase) : UpperCase[i] = c]
    ELSE c

eq_ignore_ascii_case(a, b) ==
    /\ Len(a) = Len(b)
    /\ \A i \in 1..Len(a) : to_ascii_lowercase(a[i]) = to_ascii_lowercase(b[i])

RokitToml == <<"r", "o", "k", "i", "t", ".", "t", "o", "m", "l">>
AftmanToml == <<"a", "f", "t", "m", "a", "n", ".", "t", "o", "m", "l">>

\* a bug: the file name is not tested at all
get_document_any(uri, stored) == stored

\* `stored` is what self.documents.get(uri) holds for the uri
get_document(uri, stored) ==
    IF uri.file_name.some
       /\ (\/ eq_ignore_ascii_case(uri.file_name.val, RokitToml)
           \/ eq_ignore_ascii_case(uri.file_name.val, AftmanToml))
    THEN stored
    ELSE None

\* the entities the format's query extracts from a document snapshot
query_rokit_toml_dependencies(doc) == doc.tools

Reply(res, ext, calls) == [result |-> res, extracted |-> ext, called |-> calls]

Call(fn, tool) == [fn |-> fn, tool |-> tool]

\* `ret` is what the content collaborator returns when it is called
hover(uri, stored, pos, ret) ==
    LET doc == get_document(uri, stored) IN
    IF ~doc.some THEN Reply(Ok(None), FALSE, <<>>)
    ELSE LET dependencies == query_rokit_toml_dependencies(doc.val)
             found == tool_find_at_pos(dependencies, pos)
         IN  IF ~found.some THEN Reply(Ok(None), TRUE, <<>>)
             ELSE Reply(ret, TRUE, <<Call("get_rokit_hover", found.val)>>)

\* a bug: an empty author field is not completable
completion_author_range_only(uri, stored, pos, ret) ==
    LET doc == get_document(uri, stored) IN
    IF ~doc.some THEN Reply(Ok(<<>>), FALSE, <<>>)
    ELSE LET dependencies == query_rokit_toml_dependencies(doc.val)
             found == tool_find_at_pos(dependencies, pos)
         IN  IF ~found.some THEN Reply(Ok(<<>>), TRUE, <<>>)
             ELSE LET parsed == parsed_spec(found.val) IN
                  IF parsed.version.some /\ contains(parsed.version.val, pos)
                  THEN Reply(ret, TRUE,
                             <<Call("get_rokit_completions_spec_version", found.val)>>)
                  ELSE IF parsed.repository.some /\ contains(parsed.repository.val, pos)
                  THEN Reply(ret, TRUE,
                             <<Call("get_rokit_completions_spec_name", found.val)>>)
                  ELSE IF contains(parsed.owner, pos)
                  THEN Reply(ret, TRUE,
                             <<Call("get_rokit_completions_spec_author", found.val)>>)
                  ELSE Reply(Ok(<<>>), TRUE, <<>>)

\* parsed.author / parsed.name of the handler are the owner / repository nodes
completion(uri, stored, pos, ret) ==
    LET doc == get_document(uri, stored) IN
    IF ~doc.some THEN Reply(Ok(<<>>), FALSE, <<>>)
    ELSE LET dependencies == query_rokit_toml_dependencies(doc.val)
             found == tool_find_at_pos(dependencies, pos)
         IN  IF ~found.some THEN Reply(Ok(<<>>), TRUE, <<>>)
             ELSE LET parsed == parsed_spec(found.val) IN
                  IF parsed.version.some /\ contains(parsed.version.val, pos)
                  THEN Reply(ret, TRUE,
                             <<Call("get_rokit_completions_spec_version", found.val)>>)
                  ELSE IF parsed.repository.some /\ contains(parsed.repository.val, pos)
                  THEN Reply(ret, TRUE,
                             <<Call("get_rokit_completions_spec_name", found.val)>>)
                  ELSE IF \/ contains(parsed.owner, pos)
                          \/ (unquoted(parsed.owner) = <<>> /\ contains(found.val.spec, pos))
                  THEN Reply(ret, TRUE,
                             <<Call("get_rokit_completions_spec_author", found.val)>>)
                  ELSE Reply(Ok(<<>>), TRUE, <<>>)

\* the typed fix metadata a diagnostic's payload decodes to, if it does
FixKinds == {"fixA", "fixB"}

ResolveContextTryFrom(data) ==
    IF data.context = "CodeActionMetadata" /\ data.value \in FixKinds
    THEN Ok(data.value)
    ELSE Err("decode")

into_code_action(metadata, diag) == [fix |-> metadata, diagnostic |-> diag]

\* a bug: a payload that fails to decode fails the request (the ? operator)
RECURSIVE CodeActionLoopFailing(_, _)
CodeActionLoopFailing(diags, actions) ==
    IF diags = <<>> THEN Ok(actions)
    ELSE LET diag == Head(diags) IN
         IF ~diag.data.some THEN CodeActionLoopFailing(Tail(diags), actions)
         ELSE LET decoded == ResolveContextTryFrom(diag.data.val) IN
              IF decoded.ok
              THEN CodeActionLoopFailing(Tail(diags),
                       Append(actions, into_code_action(decoded.value, diag)))
              ELSE Err("decode")

code_action_failing(uri, diags) ==
    Reply(CodeActionLoopFailing(diags, <<>>), FALSE, <<>>)

\* for diag in params.context.diagnostics { if let Some(Ok(action)) = .. }
RECURSIVE CodeActionLoop(_, _)
CodeActionLoop(diags, actions) ==
    IF diags = <<>> THEN actions
    ELSE LET diag == Head(diags)
             decoded == IF diag.data.some
                        THEN Some(ResolveContextTryFrom(diag.data.val))
                        ELSE None
         IN  IF decoded.some /\ decoded.val.ok
             THEN CodeActionLoop(Tail(diags),
                      Append(actions, into_code_action(decoded.val.value, diag)))
             ELSE CodeActionLoop(Tail(diags), actions)

\* the uri of the request is never read
code_action(uri, diags) == Reply(Ok(CodeActionLoop(diags, <<>>)), FALSE, <<>>)

(***************************************************************************)
(* Rokit::diagnostics: the per-entity checks joined by try_join_all        *)
(*                                                                         *)
(* A check is "created" (its future built, never polled), "waiting" (its   *)
(* outbound call in flight), "ready" (its response arrived, the join has   *)
(* not looked yet), "done" (the join took its output) or "dropped".        *)
(***************************************************************************)
\* a bug: the check is spawned as a task of its own, which the join does not hold
new_check_detached(tool) ==
    [tool |-> tool, state |-> "created", outcome |-> None, held |-> FALSE]

\* get_rokit_diagnostics(&self.clients, &doc, tool): a future the join holds
new_check(tool) ==
    [tool |-> tool, state |-> "created", outcome |-> None, held |-> TRUE]

\* a bug: only the first entity is checked
diagnostic_checks_first_only(dependencies) ==
    <<new_check(dependencies[1])>>

\* dependencies.iter().map(|tool| get_rokit_diagnostics(..)): one per entity
diagnostic_checks(dependencies) ==
    [i \in 1..Len(dependencies) |-> new_check(dependencies[i])]

\* One poll of TryJoinAll: the elements in order, stopping at the first error.
\* imm[i] is what the i-th check does on its first poll: None when it suspends
\* on its outbound call, Some(o) when it finishes with o without suspending.
RECURSIVE PollFrom(_, _, _, _, _)
PollFrom(elems, i, imm, pending, finished) ==
    IF i > Len(elems)
    THEN [elems |-> elems, failed |-> None, pending |-> pending, finished |-> finished]
    ELSE
        LET e == elems[i]
            now == IF e.state = "ready" THEN e.outcome
                   ELSE IF e.state = "created" THEN imm[i]
                   ELSE None
        IN  IF e.state = "done"
            THEN PollFrom(elems, i + 1, imm, pending, finished)
            ELSE IF ~now.some
            THEN PollFrom([elems EXCEPT ![i].state = "waiting"], i + 1, imm, TRUE, finished)
            ELSE LET taken == [elems EXCEPT ![i].state = "done", ![i].outcome = now]
                     order == IF e.state = "created" THEN Append(finished, i) ELSE finished
                 IN  IF now.val.ok
                     THEN PollFrom(taken, i + 1, imm, pending, order)
                     ELSE [elems |-> taken, failed |-> now, pending |-> pending,
                           finished |-> order]

\* dropping a future drops the futures it holds
Drop(elems) ==
    [i \in 1..Len(elems) |->
        IF elems[i].held THEN [elems[i] EXCEPT !.state = "dropped"] ELSE elems[i]]

RECURSIVE Flatten(_)
Flatten(lists) ==
    IF lists = <<>> THEN <<>> ELSE Head(lists) \o Flatten(Tail(lists))

\* a bug: the outputs are collected in the order the checks finished
JoinOutputCompletionOrder(elems, order) ==
    [k \in 1..Len(order) |-> elems[order[k]].outcome.val.value]

\* try_join_all gives the outputs in the order of its input
JoinOutput(elems, order) ==
    [i \in 1..Len(elems) |-> elems[i].outcome.val.value]

\* a bug: a failed check is skipped and what succeeded is returned
diagnostics_result_partial(joined, order) ==
    LET good == SelectSeq(joined.elems,
                          LAMBDA e : e.state = "done" /\ e.outcome.val.ok)
    IN  Ok(Flatten(JoinOutput(good, order)))

\* `.await?` and then Ok(results.into_iter().flatten().collect())
diagnostics_result(joined, order) ==
    IF joined.failed.some
    THEN Err(joined.failed.val.error)
    ELSE Ok(Flatten(JoinOutput(joined.elems, order)))

(***************************************************************************)
(* Inputs of the pure functions                                            *)
(***************************************************************************)
\* the cursor positions of a document whose lines hold LineWidth positions
Positions == { Pos(k \div LineWidth, k % LineWidth) : k \in 0..MaxOffset }

Ranges == { Rng(s, e) : <<s, e>> \in { p \in Positions \X Positions : PosLe(p[1], p[2]) } }

Name == <<"n">>

\* the i-th entry of a list given to sort_vec: its name is where the extractor
\* found it, its spec anywhere
SortDep(i, choice) ==
    LET name == new_raw(Rng(Pos(i, 0), Pos(i, 1)), Name) IN
    IF choice.some
    THEN new_full("Default", name, new_raw(choice.val, DependencySpecDefault))
    ELSE new_partial("Default", name)

SpecChoices == {None} \cup { Some(r) : r \in Ranges }

\* an entity for find_at_pos: a key, then (for a Full dependency or a tool) its
\* value at or after the end of the key
FindDeps ==
    { new_partial("Default", new_raw(n, Name)) : n \in Ranges }
    \cup { new_full("Default", new_raw(p[1], Name), new_raw(p[2], DependencySpecDefault))
           : p \in { q \in Ranges \X Ranges : PosLe(q[1].end, q[2].start) } }

FindTools ==
    { NewTool(new_raw(p[1], Name), new_raw(p[2], <<Quote, Quote>>))
      : p \in { q \in Ranges \X Ranges : PosLe(q[1].end, q[2].start) } }

SeqsUpTo(S, n) == UNION { [1..k -> S] : k \in 0..n }

\* a tool entry `tool = <text>` on the given line: the key at columns 0..4,
\* the value from column 7
ToolName == <<"t", "o", "o", "l">>

MkTool(line, text) ==
    NewTool(new_raw(Rng(Pos(line, 0), Pos(line, Len(ToolName))), ToolName),
            new_raw(Rng(Pos(line, 7), Pos(line, 7 + Len(text))), text))

\* the spec texts: a TOML string over the letters and separators of the
\* grammar owner[/repository[@version]], closed or (mid-edit) still open
SpecAlphabet == {"a", "/", "@"}

SpecTexts ==
    { <<Quote>> \o t \o <<Quote>> : t \in SeqsUpTo(SpecAlphabet, MaxSpecLen) }
    \cup { <<Quote>> \o t : t \in SeqsUpTo(SpecAlphabet, MaxSpecLen) }

Uri(name) == [file_name |-> name]

Items == Ok(<<"item">>)
CollaboratorReturns == {Items, Err("fetch")}

\* the uris of the requests: recognised names in several casings, another
\* manifest, and a uri with no file name
Uris ==
    { Uri(Some(RokitToml)),
      Uri(Some(<<"R", "O", "K", "I", "T", ".", "T", "O", "M", "L">>)),
      Uri(Some(<<"A", "f", "t", "m", "a", "n", ".", "t", "o", "m", "l">>)),
      Uri(Some(<<"c", "a", "r", "g", "o", ".", "t", "o", "m", "l">>)),
      Uri(None) }

\* the documents of the store: up to MaxDeps tools, one per line
SampleTexts == { <<Quote, "a", "/", "a", "@", "a", Quote>>, <<Quote, Quote>> }

SampleDocs ==
    UNION { { [tools |-> [i \in 1..n |-> MkTool(i - 1, c[i])]] : c \in [1..n -> SampleTexts] }
            : n \in 0..MaxDeps }

Stored == {None} \cup { Some(d) : d \in SampleDocs }

RequestPositions == { Pos(l, c) : l \in 0..MaxDeps, c \in 0..(MaxSpecLen + 10) }

\* what one check can give: an error of its outbound call, or its diagnostics
DiagList(i, n) == [k \in 1..n |-> [entity |-> i, n |-> k, data |-> None]]

Outcomes(i) == {Err("fetch")} \cup { Ok(DiagList(i, n)) : n \in 0..MaxDiags }

FirstPolls(n) ==
    { f \in [1..n -> {None} \cup UNION { { Some(o) : o \in Outcomes(i) } : i \in 1..n }] :
        \A i \in 1..n : f[i].some => f[i].val \in Outcomes(i) }

\* the diagnostics of a codeAction request, with or without a payload
Payloads ==
    { [context |-> c, value |-> v] :
        c \in {"CodeActionMetadata", "Other"}, v \in FixKinds \cup {"garbled"} }

DataChoices == {None} \cup { Some(d) : d \in Payloads }

ContextDiagnostics ==
    UNION { { [k \in 1..n |-> [entity |-> 0, n |-> k, data |-> c[k]]] : c \in [1..n -> DataChoices] }
            : n \in 0..MaxContext }

NoResult == [ok |-> TRUE, value |-> "none"]

Quiet ==
    /\ extracted = FALSE
    /\ called = <<>>
    /\ checks = <<>>
    /\ completed = <<>>

(***************************************************************************)
(* SpecSort: Dependency::sort_vec applied to every bounded list            *)
(***************************************************************************)
InitSort ==
    /\ \E n \in 0..MaxSortLen :
           \E c \in [1..n -> SpecChoices] :
               req = [op |-> "sort_vec", vec |-> [i \in 1..n |-> SortDep(i, c[i])]]
    /\ pc = "idle"
    /\ result = NoResult
    /\ Quiet

SortVec ==
    /\ pc = "idle"
    /\ req.op = "sort_vec"
    /\ result' = [ok |-> TRUE, value |-> sort_vec(req.vec)]
    /\ pc' = "done"
    /\ UNCHANGED <<req, extracted, called, checks, completed>>

NextSort == SortVec

SpecSort == InitSort /\ [][NextSort]_vars

(***************************************************************************)
(* SpecFind: find_at_pos applied to every bounded list and position        *)
(***************************************************************************)
InitFind ==
    /\ \E n \in 0..MaxFindLen, p \in Positions :
           \/ \E v \in [1..n -> FindDeps] :
                  req = [op |-> "find_at_pos", of |-> "Dependency", vec |-> v, pos |-> p]
           \/ \E v \in [1..n -> FindTools] :
                  req = [op |-> "find_at_pos", of |-> "Tool", vec |-> v, pos |-> p]
    /\ pc = "idle"
    /\ result = NoResult
    /\ Quiet

FindAtPos ==
    /\ pc = "idle"
    /\ req.op = "find_at_pos"
    /\ result' = [ok |-> TRUE,
                  value |-> IF req.of = "Dependency"
                            THEN find_at_pos(req.vec, req.pos)
                            ELSE tool_find_at_pos(req.vec, req.pos)]
    /\ pc' = "done"
    /\ UNCHANGED <<req, extracted, called, checks, completed>>

NextFind == FindAtPos

SpecFind == InitFind /\ [][NextFind]_vars

(***************************************************************************)
(* SpecParse: Tool::parsed_spec applied to every bounded spec text         *)
(***************************************************************************)
InitParse ==
    /\ req \in { [op |-> "parsed_spec", tool |-> MkTool(0, t)] : t \in SpecTexts }
    /\ pc = "idle"
    /\ result = NoResult
    /\ Quiet

ParsedSpec ==
    /\ pc = "idle"
    /\ req.op = "parsed_spec"
    /\ result' = Ok(parsed_spec(req.tool))
    /\ pc' = "done"
    /\ UNCHANGED <<req, extracted, called, checks, completed>>

NextParse == ParsedSpec

SpecParse == InitParse /\ [][NextParse]_vars

(***************************************************************************)
(* SpecCompletion: the completion handler on a one-tool document, for      *)
(* every bounded spec text and every cursor column                        *)
(***************************************************************************)
InitCompletion ==
    /\ \E t \in SpecTexts, c \in 0..(MaxSpecLen + 10), r \in CollaboratorReturns :
           req = [op |-> "completion", uri |-> Uri(Some(RokitToml)),
                  stored |-> Some([tools |-> <<MkTool(0, t)>>]), pos |-> Pos(0, c),
                  ret |-> r]
    /\ pc = "idle"
    /\ result = NoResult
    /\ Quiet

CompleteAt ==
    /\ pc = "idle"
    /\ req.op = "completion"
    /\ LET r == completion(req.uri, req.stored, req.pos, req.ret) IN
        /\ result' = r.result
        /\ extracted' = r.extracted
        /\ called' = r.called
    /\ pc' = "done"
    /\ UNCHANGED <<req, checks, completed>>

NextCompletion == CompleteAt

SpecCompletion == InitCompletion /\ [][NextCompletion]_vars

(***************************************************************************)
(* Spec: the handler serving one request after another; a diagnostics      *)
(* request stays in flight while its checks are outstanding                *)
(***************************************************************************)
Init ==
    /\ req = [op |-> "none"]
    /\ pc = "idle"
    /\ result = NoResult
    /\ Quiet

Free == pc = "idle"

Served(r) ==
    /\ result' = r.result
    /\ extracted' = r.extracted
    /\ called' = r.called
    /\ checks' = <<>>
    /\ completed' = <<>>
    /\ pc' = "done"

Hover ==
    /\ Free
    /\ \E uri \in Uris, stored \in Stored, pos \in RequestPositions,
          ret \in {Ok(Some("hover")), Err("fetch")} :
        /\ req' = [op |-> "hover", uri |-> uri, stored |-> stored, pos |-> pos, ret |-> ret]
        /\ Served(hover(uri, stored, pos, ret))

Completion ==
    /\ Free
    /\ \E uri \in Uris, stored \in Stored, pos \in RequestPositions,
          ret \in CollaboratorReturns :
        /\ req' = [op |-> "completion", uri |-> uri, stored |-> stored, pos |-> pos,
                   ret |-> ret]
        /\ Served(completion(uri, stored, pos, ret))

CodeAction ==
    /\ Free
    /\ \E uri \in Uris, diags \in ContextDiagnostics :
        /\ req' = [op |-> "codeAction", uri |-> uri, diagnostics |-> diags]
        /\ Served(code_action(uri, diags))

\* the join has been polled: the request fails, returns, or stays in flight
Joined(joined, order) ==
    IF joined.failed.some \/ ~joined.pending
    THEN /\ pc' = "done"
         /\ result' = diagnostics_result(joined, order)
         /\ checks' = IF joined.failed.some THEN Drop(joined.elems) ELSE joined.elems
         /\ completed' = order
    ELSE /\ pc' = "awaiting"
         /\ result' = NoResult
         /\ checks' = joined.elems
         /\ completed' = order

\* the handler up to its first suspension, the first poll of the join included
Diagnostics ==
    /\ Free
    /\ \E uri \in Uris, stored \in Stored :
        /\ req' = [op |-> "diagnostics", uri |-> uri, stored |-> stored]
        /\ LET doc == get_document(uri, stored) IN
           IF ~doc.some
           THEN Served(Reply(Ok(<<>>), FALSE, <<>>))
           ELSE LET dependencies == query_rokit_toml_dependencies(doc.val) IN
                IF dependencies = <<>>
                THEN Served(Reply(Ok(<<>>), TRUE, <<>>))
                ELSE LET made == diagnostic_checks(dependencies) IN
                     /\ extracted' = TRUE
                     /\ called' = [i \in 1..Len(made) |->
                                      Call("get_rokit_diagnostics", made[i].tool)]
                     /\ \E imm \in FirstPolls(Len(made)) :
                            LET joined == PollFrom(made, 1, imm, FALSE, <<>>)
                            IN  Joined(joined, joined.finished)

\* the response of a check's outbound call arrives
Respond ==
    \E i \in 1..Len(checks) :
        /\ checks[i].state = "waiting"
        /\ \E o \in Outcomes(i) :
            checks' = [checks EXCEPT ![i].state = "ready", ![i].outcome = Some(o)]
        /\ completed' = Append(completed, i)
        /\ UNCHANGED <<req, pc, result, extracted, called>>

\* the request is woken and polls the join again
Poll ==
    /\ pc = "awaiting"
    /\ \E i \in 1..Len(checks) : checks[i].state = "ready"
    /\ LET joined == PollFrom(checks, 1, <<>>, FALSE, <<>>)
       IN  Joined(joined, completed)
    /\ UNCHANGED <<req, extracted, called>>

\* the protocol layer cancels the request in flight: its future is dropped
Cancel ==
    /\ pc = "awaiting"
    /\ pc' = "cancelled"
    /\ checks' = Drop(checks)
    /\ UNCHANGED <<req, result, extracted, called, completed>>

\* the reply has gone out (or the request was cancelled): everything built for
\* the request is dropped and the handler serves the next one
Release ==
    /\ pc \in {"done", "cancelled"}
    /\ req' = [op |-> "none"]
    /\ pc' = "idle"
    /\ result' = NoResult
    /\ extracted' = FALSE
    /\ called' = <<>>
    /\ checks' = <<>>
    /\ completed' = <<>>

Next ==
    \/ Hover
    \/ Completion
    \/ CodeAction
    \/ Diagnostics
    \/ Respond
    \/ Poll
    \/ Cancel
    \/ Release

Spec == Init /\ [][Next]_vars

(***************************************************************************)
(* The claims.  Containment is restated here from the coordinates, so that *)
(* the formulas do not rest on range_contains.                             *)
(***************************************************************************)
NotAfter(a, b) ==
    a.line < b.line \/ (a.line = b.line /\ a.character <= b.character)

Inside(range, pos) == NotAfter(range.start, pos) /\ NotAfter(pos, range.end)

IsFull(dep) == dep.variant = "Full"

\* the place of an entry in the list given to sort_vec
InputIndex(dep) == CHOOSE k \in 1..Len(req.vec) : req.vec[k] = dep

SortDone == pc = "done" /\ req.op = "sort_vec"

\* C6: sort_vec yields a permutation of its input in which every Full entry
\* precedes every Partial entry, the Full entries ascend by spec range start
\* and then by spec range end, and the Partial entries keep their input order.
C6_SortVec ==
    SortDone =>
        LET in == req.vec
            out == result.value
        IN  /\ Len(out) = Len(in)
            /\ \A k \in 1..Len(in) :
                   Cardinality({i \in 1..Len(out) : out[i] = in[k]}) = 1
            /\ \A i, j \in 1..Len(out) :
                   i < j =>
                       /\ ~(~IsFull(out[i]) /\ IsFull(out[j]))
                       /\ (IsFull(out[i]) /\ IsFull(out[j])) =>
                              LET a == out[i].spec.range
                                  b == out[j].spec.range
                              IN  /\ NotAfter(a.start, b.start)
                                  /\ a.start = b.start => NotAfter(a.end, b.end)
                       /\ (~IsFull(out[i]) /\ ~IsFull(out[j])) =>
                              InputIndex(out[i]) < InputIndex(out[j])

\* a Full entry between two Partial entries: it moves to the front and the two
\* Partial entries stay in their order
C6_Witness ==
    /\ SortDone
    /\ Len(req.vec) = 3
    /\ ~IsFull(req.vec[1]) /\ IsFull(req.vec[2]) /\ ~IsFull(req.vec[3])
    /\ result.value = <<req.vec[2], req.vec[1], req.vec[3]>>

FindDone == pc = "done" /\ req.op = "find_at_pos"

\* whether the k-th entity has a name or spec range containing the position;
\* a Partial dependency has no spec range
Covers(k) ==
    LET e == req.vec[k] IN
    \/ Inside(e.name.range, req.pos)
    \/ /\ (req.of = "Tool" \/ IsFull(e))
       /\ Inside(e.spec.range, req.pos)

\* C7: find_at_pos returns the first entity of the list whose name range or
\* spec range contains the position (both ends inclusive), and nothing exactly
\* when no entity's range contains it.
C7_FindAtPos ==
    FindDone =>
        LET hits == {k \in 1..Len(req.vec) : Covers(k)} IN
        /\ (hits = {}) <=> (result.value = None)
        /\ hits # {} =>
               LET first == CHOOSE k \in hits : \A h \in hits : k <= h
               IN  result.value = Some(req.vec[first])

\* the first entity does not cover the cursor; the second is a Partial
\* dependency whose name ends exactly at the cursor
C7_Witness ==
    /\ FindDone
    /\ req.of = "Dependency"
    /\ Len(req.vec) = 2
    /\ ~Covers(1)
    /\ ~IsFull(req.vec[2])
    /\ req.vec[2].name.range.end = req.pos
    /\ req.vec[2].name.range.start # req.pos
    /\ result.value = Some(req.vec[2])

ParseDone == pc = "done" /\ req.op = "parsed_spec"

Count(s, ch) == Cardinality({k \in 1..Len(s) : s[k] = ch})

\* a spec text "owner/repository@version": closed quotes, one slash, then one
\* at sign, and three components that are not empty
WellFormedSpec(text) ==
    /\ Len(text) >= 2 /\ text[1] = Quote /\ text[Len(text)] = Quote
    /\ Count(text, "/") = 1 /\ Count(text, "@") = 1
    /\ LET slash == FirstIndex(text, "/")
           at == FirstIndex(text, "@")
       IN  2 < slash /\ slash + 1 < at /\ at + 1 < Len(text)

CompletionDone == pc = "done" /\ req.op = "completion"

\* the tool of the one-tool document when the cursor is on it
OnTool ==
    LET tool == req.stored.val.tools[1] IN
    Inside(tool.name.range, req.pos) \/ Inside(tool.spec.range, req.pos)

\* the field the cursor is in, by priority: version, name, author
FieldAt(tool, pos) ==
    LET parsed == parsed_spec(tool) IN
    IF parsed.version.some /\ Inside(parsed.version.val.range, pos) THEN "version"
    ELSE IF parsed.repository.some /\ Inside(parsed.repository.val.range, pos) THEN "name"
    ELSE IF \/ Inside(parsed.owner.range, pos)
            \/ (parsed.owner.contents = <<>> /\ Inside(tool.spec.range, pos))
    THEN "author"
    ELSE "none"

\* C8: on a found entity the completion goes to the version collaborator if
\* the cursor is in the version sub-range (ends inclusive), else to the name
\* collaborator, else to the author collaborator (also for an empty author
\* with the cursor in the spec range), else it is an empty list with success;
\* one collaborator is called, or none.
C8_CompletionField ==
    (CompletionDone /\ OnTool) =>
        LET tool == req.stored.val.tools[1]
            field == FieldAt(tool, req.pos)
        IN  /\ Len(called) <= 1
            /\ field = "none" => (called = <<>> /\ result = Ok(<<>>))
            /\ field # "none" =>
                   /\ called = <<Call("get_rokit_completions_spec_" \o field, tool)>>
                   /\ result = req.ret

\* the cursor exactly at the first character of a version that is not empty:
\* the version collaborator is the one called
C8_Witness ==
    /\ CompletionDone
    /\ OnTool
    /\ LET parsed == parsed_spec(req.stored.val.tools[1]) IN
        /\ parsed.version.some
        /\ parsed.version.val.contents # <<>>
        /\ parsed.version.val.range.start = req.pos
    /\ Len(called) = 1
    /\ called[1].fn = "get_rokit_completions_spec_version"

LowerText(s) == [i \in 1..Len(s) |-> to_ascii_lowercase(s[i])]

\* the request's uri names rokit.toml or aftman.toml, in any casing
Recognised ==
    /\ req.uri.file_name.some
    /\ LowerText(req.uri.file_name.val) \in {RokitToml, AftmanToml}

EmptyReply == IF req.op = "hover" THEN Ok(None) ELSE Ok(<<>>)

NothingDone ==
    /\ pc = "done"
    /\ result = EmptyReply
    /\ extracted = FALSE
    /\ called = <<>>
    /\ checks = <<>>

DiagnosticsRequest == req.op = "diagnostics" /\ Len(checks) >= 1

CheckFailed(i) == checks[i].outcome.some /\ ~checks[i].outcome.val.ok

\* C1: a diagnostics request with a failed check never returns a list: once
\* it has returned, it returned an error if and only if a check failed.
C1_FailFast ==
    DiagnosticsRequest =>
        /\ pc = "done" =>
               /\ result.ok <=> ~(\E i \in 1..Len(checks) : CheckFailed(i))
               /\ ~result.ok => result = Err("fetch")
        /\ pc # "done" => result = NoResult

\* the first check gave a diagnostic, the last one failed: the request failed
C1_Witness ==
    /\ DiagnosticsRequest
    /\ pc = "done"
    /\ Len(checks) >= 2
    /\ checks[1].outcome.some
    /\ checks[1].outcome.val.ok
    /\ checks[1].outcome.val.value # <<>>
    /\ CheckFailed(Len(checks))
    /\ ~result.ok

\* C2: when every check succeeds, the combined list holds, for each entity in
\* extraction order, exactly the list its check gave.
C2_EntityOrder ==
    (DiagnosticsRequest /\ pc = "done" /\ result.ok) =>
        LET out == result.value IN
        /\ \A k \in 1..Len(out) : out[k].entity \in 1..Len(checks)
        /\ \A a, b \in 1..Len(out) : a < b => out[a].entity <= out[b].entity
        /\ \A i \in 1..Len(checks) :
               SelectSeq(out, LAMBDA d : d.entity = i) = checks[i].outcome.val.value

\* the checks finished in the reverse of the extraction order, each with a
\* diagnostic
C2_Witness ==
    /\ DiagnosticsRequest
    /\ pc = "done"
    /\ result.ok
    /\ Len(checks) >= 2
    /\ completed[1] = Len(checks)
    /\ completed[Len(completed)] = 1
    /\ \A i \in 1..Len(checks) : checks[i].outcome.val.value # <<>>

\* the entities the request's document yields
Entities ==
    IF Recognised /\ req.stored.some THEN req.stored.val.tools ELSE <<>>

\* C3: a diagnostics request makes one check per extracted entity, the i-th
\* for the i-th entity; with no entity it returns an empty list and no check
\* exists.
C3_OneCheckPerEntity ==
    req.op = "diagnostics" =>
        /\ Len(checks) = Len(Entities)
        /\ \A i \in 1..Len(checks) : checks[i].tool = Entities[i]
        /\ called = [i \in 1..Len(Entities) |-> Call("get_rokit_diagnostics", Entities[i])]
        /\ Entities = <<>> => (pc = "done" /\ result = Ok(<<>>))

\* two entities, two checks, both outbound calls in flight
C3_Witness ==
    /\ req.op = "diagnostics"
    /\ pc = "awaiting"
    /\ Len(Entities) >= 2
    /\ \A i \in 1..Len(checks) : checks[i].state = "waiting"

Decodable(diag) == diag.data.some /\ ResolveContextTryFrom(diag.data.val).ok

\* C10: codeAction succeeds for every list of diagnostics, with one action per
\* diagnostic whose payload is present and decodes, in the request's order,
\* and nothing for the others.
C10_CodeActionTotal ==
    req.op = "codeAction" =>
        LET good == SelectSeq(req.diagnostics, Decodable) IN
        /\ pc = "done"
        /\ result.ok
        /\ Len(result.value) = Len(good)
        /\ \A k \in 1..Len(good) :
               /\ result.value[k].diagnostic = good[k]
               /\ result.value[k].fix = good[k].data.val.value

\* a payload that does not decode, then one that does: one action, for the
\* second diagnostic
C10_Witness ==
    /\ req.op = "codeAction"
    /\ Len(req.diagnostics) = 2
    /\ req.diagnostics[1].data.some
    /\ ~Decodable(req.diagnostics[1])
    /\ Decodable(req.diagnostics[2])
    /\ Len(result.value) = 1
    /\ result.value[1].diagnostic = req.diagnostics[2]

====
